---- MODULE Spec2Model ----
(***************************************************************************)
(* A model of protobuf-builder (src/src/lib.rs): the Builder               *)
(* configuration, the directories it reads and writes, and the steps of    *)
(* Builder::generate.                                                      *)
(*                                                                         *)
(* Strings and paths are sequences of bytes (ASCII codes), so that         *)
(* Path::extension, Path::file_stem, format!, String's ordering and the    *)
(* bytes written to mod.rs are computed, not assumed.                      *)
(***************************************************************************)
EXTENDS Integers, Sequences, FiniteSets, TLC

VARIABLES
    out_dir,      \* Builder.out_dir
    files,        \* Builder.files
    include_dir,  \* Builder.include_dir
    fs,           \* the output directories: path -> [exists, files: name -> file]
    protos,       \* the input directories: path -> set of entries [name, kind]
    pc,           \* position of the process: idle, a step of generate(), done, aborted
    run,          \* number of generate() calls started (stamps the files a call creates)
    protoc,       \* what check_and_get_protoc_bin_path found in this call
    invoked,      \* whether compile_grpc_protos was called in this call
    genOut,       \* the names the generator wrote in this call
    genSnap,      \* the output directory's files when the generator returned
    modules,      \* generate_mod_file's local `modules`, after the sort
    steps,        \* the steps of this call that completed, in order
    failed,       \* the step at which this call aborted ("" when none)
    lastSearch,   \* the argument of the last search_dir_for_protos call
    lastOutDir,   \* the argument of the last out_dir call
    prev          \* the last successful generate(): its configuration, outputs, index

vars == <<out_dir, files, include_dir, fs, protos, pc, run, protoc, invoked,
          genOut, genSnap, modules, steps, failed, lastSearch, lastOutDir, prev>>

cfgVars == <<out_dir, files, include_dir>>
callVars == <<run, protoc, invoked, genOut, genSnap, modules, steps, failed>>

(***************************************************************************)
(* Bounds.                                                                 *)
(***************************************************************************)
\* generate() calls in one behaviour
MaxRuns == 2
\* entries of the directory search_dir_for_protos is checked on (SpecSearch)
MaxEntries == 4

(***************************************************************************)
(* Byte strings.                                                           *)
(***************************************************************************)
S_rs == <<114, 115>>                                  \* "rs"
S_proto == <<112, 114, 111, 116, 111>>                \* "proto"
S_mod == <<109, 111, 100>>                            \* "mod"
S_slash == <<47>>                                     \* "/"
S_dot == <<46>>                                       \* "."
S_pub_mod == <<112, 117, 98, 32, 109, 111, 100, 32>>  \* "pub mod "
S_semi_nl == <<59, 10>>                               \* ";\n"
S_protos == <<112, 114, 111, 116, 111, 115>>          \* "protos"

N_a_rs == <<97>> \o S_dot \o S_rs                                \* "a.rs"
N_a_grpc_rs == <<97, 95, 103, 114, 112, 99>> \o S_dot \o S_rs    \* "a_grpc.rs"
N_b_rs == <<98>> \o S_dot \o S_rs                                \* "b.rs"
N_mod_rs == S_mod \o S_dot \o S_rs                               \* "mod.rs"
N_n_txt == <<110, 46, 116, 120, 116>>                            \* "n.txt"
N_old_rs == <<111, 108, 100>> \o S_dot \o S_rs                   \* "old.rs"

N_a_proto == <<97>> \o S_dot \o S_proto                          \* "a.proto"
N_b_proto == <<98>> \o S_dot \o S_proto                          \* "b.proto"
N_readme_md == <<114, 101, 97, 100, 109, 101, 46, 109, 100>>     \* "readme.md"
N_dot_proto == S_dot \o S_proto                                  \* ".proto"
N_sub_proto == <<115, 117, 98>> \o S_dot \o S_proto              \* "sub.proto"
N_sub == <<115, 117, 98>>                                        \* "sub"
N_l_proto == <<108>> \o S_dot \o S_proto                         \* "l.proto"
N_aproto == <<97>> \o S_proto                                    \* "aproto"

\* the value of the OUT_DIR environment variable
EnvOutDir == <<111>>                                             \* "o"
\* the paths out_dir() is called with
OutDirArgs == {EnvOutDir \o S_slash \o S_protos, <<103>>}        \* "o/protos", "g"
\* the paths search_dir_for_protos() is called with
ProtoDirArgs == {S_protos, <<101>>}                              \* "protos", "e"
\* the directory whose content SpecSearch varies
SearchedDir == S_protos
\* the names the external generator may write
GenNames == {N_a_rs, N_a_grpc_rs, N_b_rs, N_mod_rs, N_n_txt}

None == [some |-> FALSE, val |-> <<>>]
Some(v) == [some |-> TRUE, val |-> v]

Range(s) == {s[i] : i \in DOMAIN s}

\* the injective sequences over a finite set: the orders fs::read_dir may return
RECURSIVE Orders(_)
Orders(S) ==
    IF S = {} THEN {<<>>}
    ELSE UNION {{<<x>> \o t : t \in Orders(S \ {x})} : x \in S}

\* Ord for String / [u8]: lexicographic comparison of the bytes
RECURSIVE LexLess(_, _)
LexLess(a, b) ==
    IF b = <<>> THEN FALSE
    ELSE IF a = <<>> THEN TRUE
    ELSE IF a[1] # b[1] THEN a[1] < b[1]
    ELSE LexLess(Tail(a), Tail(b))

\* the position of the last occurrence of byte c in s, 0 when there is none
LastIndexOf(s, c) ==
    LET hits == {i \in DOMAIN s : s[i] = c}
    IN  IF hits = {} THEN 0 ELSE CHOOSE i \in hits : \A j \in hits : j <= i

\* Path::file_name for the paths of the model (no trailing slash, no "..")
FileName(path) ==
    SubSeq(path, LastIndexOf(path, 47) + 1, Len(path))

\* Path::extension: the part after the last dot of the file name, None when the
\* name has no dot or its only dot is the first byte
Extension(path) ==
    LET name == FileName(path)
        i == LastIndexOf(name, 46)
    IN  IF i <= 1 THEN None ELSE Some(SubSeq(name, i + 1, Len(name)))

\* Path::file_stem: the file name without its extension
FileStem(path) ==
    LET name == FileName(path)
        i == LastIndexOf(name, 46)
    IN  IF i <= 1 THEN name ELSE SubSeq(name, 1, i - 1)

\* format!("{}/{}", dir, name) and PathBuf::join on the paths of the model
JoinPath(dir, name) == dir \o S_slash \o name

(***************************************************************************)
(* The filesystem.                                                         *)
(***************************************************************************)
NoFiles == [n \in {} |-> 0]
AbsentDir == [exists |-> FALSE, files |-> NoFiles]
EmptyDir == [exists |-> TRUE, files |-> NoFiles]

\* a file: the generate() call that created it, who wrote it last, its bytes
\* (the generator's bytes are opaque: the empty sequence stands for them)
GenFile(r) == [born |-> r, src |-> "generator", data |-> <<>>]

\* f with name n bound to file v
WithFile(f, n, v) == [m \in DOMAIN f \cup {n} |-> IF m = n THEN v ELSE f[m]]

\* f restricted to the names in S
Restrict(f, S) == [m \in DOMAIN f \cap S |-> f[m]]

\* an output directory left by an earlier build: two outputs and their index
StaleDir ==
    [exists |-> TRUE,
     files |-> WithFile(WithFile(WithFile(NoFiles,
                 N_old_rs, [born |-> 0, src |-> "generator", data |-> <<>>]),
                 N_a_rs, [born |-> 0, src |-> "generator", data |-> <<>>]),
                 N_mod_rs, [born |-> 0, src |-> "index",
                            data |-> S_pub_mod \o <<97>> \o S_semi_nl
                                     \o S_pub_mod \o <<111, 108, 100>> \o S_semi_nl])]

Entry(n, k) == [name |-> n, kind |-> k]

\* every entry a searched directory may hold
EntryPool ==
    {Entry(N_a_proto, "file"), Entry(N_b_proto, "file"), Entry(N_readme_md, "file"),
     Entry(N_dot_proto, "file"), Entry(N_aproto, "file"), Entry(N_sub_proto, "dir"),
     Entry(N_sub, "dir"), Entry(N_l_proto, "symlink")}

NoProtoc == [st |-> "unresolved", major |-> 0]
\* what resolving the vendored protoc can give: no binary, no readable version,
\* or a version with a major number
ProtocOutcomes ==
    {[st |-> "not_found", major |-> 0], [st |-> "no_version", major |-> 0]}
    \cup {[st |-> "ok", major |-> m] : m \in {2, 3, 4}}

NoPrev == [valid |-> FALSE, out_dir |-> <<>>, files |-> <<>>, genOut |-> {},
           index |-> <<>>]

\* Builder::new(): out_dir = "$OUT_DIR/protos", no files, include_dir = "protos"
InitBuilder ==
    /\ out_dir = EnvOutDir \o S_slash \o S_protos
    /\ files = <<>>
    /\ include_dir = S_protos

InitCall ==
    /\ pc = "idle"
    /\ run = 0
    /\ protoc = NoProtoc
    /\ invoked = FALSE
    /\ genOut = {}
    /\ genSnap = NoFiles
    /\ modules = <<>>
    /\ steps = <<>>
    /\ failed = ""
    /\ lastSearch = <<>>
    /\ lastOutDir = <<>>
    /\ prev = NoPrev

Init ==
    /\ InitBuilder
    /\ InitCall
    /\ \E d0 \in {AbsentDir, EmptyDir, StaleDir} :
          fs = [d \in OutDirArgs |->
                  IF d = EnvOutDir \o S_slash \o S_protos THEN d0 ELSE AbsentDir]
    /\ protos = [d \in ProtoDirArgs |->
                  IF d = SearchedDir
                  THEN [exists |-> TRUE,
                        entries |-> {Entry(N_a_proto, "file"), Entry(N_readme_md, "file"),
                                     Entry(N_sub_proto, "dir")}]
                  ELSE [exists |-> FALSE, entries |-> {}]]

\* mutant: the error is recorded and the process goes on
Abort_Swallowed(s) ==
    /\ pc' = pc
    /\ failed' = s

\* a panic: the process ends at step s
Abort(s) ==
    /\ pc' = "aborted"
    /\ failed' = s

(***************************************************************************)
(* Builder::out_dir                                                        *)
(***************************************************************************)
\* mutant: the setter also resets the file list
OutDir_ClearsFiles(path) ==
    /\ pc = "idle"
    /\ out_dir' = path
    /\ lastOutDir' = path
    /\ files' = <<>>
    /\ UNCHANGED <<include_dir, fs, protos, pc, callVars, lastSearch, prev>>

OutDir(path) ==
    /\ pc = "idle"
    /\ out_dir' = path
    /\ lastOutDir' = path
    /\ UNCHANGED <<files, include_dir, fs, protos, pc, callVars, lastSearch, prev>>

(***************************************************************************)
(* Builder::search_dir_for_protos                                          *)
(***************************************************************************)
\* mutant: the entry's file type is not looked at
SearchFilter_NoDirCheck(proto_dir, e) ==
    IF Extension(JoinPath(proto_dir, e.name)) # Some(S_proto)
    THEN None
    ELSE Some(JoinPath(proto_dir, e.name))

\* the filter_map closure: None for a directory or another extension, else
\* Some("<proto_dir>/<file name>")
SearchFilter(proto_dir, e) ==
    IF e.kind = "dir" \/ Extension(JoinPath(proto_dir, e.name)) # Some(S_proto)
    THEN None
    ELSE Some(JoinPath(proto_dir, e.name))

\* filter_map(..).collect() over the entries in the order read_dir gave them
RECURSIVE SearchCollect(_, _)
SearchCollect(proto_dir, order) ==
    IF order = <<>> THEN <<>>
    ELSE LET r == SearchFilter(proto_dir, Head(order))
         IN  (IF r.some THEN <<r.val>> ELSE <<>>)
             \o SearchCollect(proto_dir, Tail(order))

SearchDirForProtos(proto_dir) ==
    /\ pc = "idle"
    /\ lastSearch' = proto_dir
    /\ \/ /\ protos[proto_dir].exists
          /\ \E order \in Orders(protos[proto_dir].entries) :
                files' = SearchCollect(proto_dir, order)
          /\ UNCHANGED <<pc, failed>>
       \/ \* read_dir fails (no such directory, or one that cannot be listed), or
          \* an entry or its file type cannot be read: the panic comes before
          \* the assignment to self.files
          /\ Abort("search_dir_for_protos")
          /\ UNCHANGED files
    /\ UNCHANGED <<out_dir, include_dir, fs, protos, run, protoc, invoked, genOut,
                   genSnap, modules, steps, lastOutDir, prev>>

(***************************************************************************)
(* Builder::generate, step by step.  The process is single-threaded: a     *)
(* step starts when the one before it returned, and a panic ends it.       *)
(***************************************************************************)
Done(s) ==
    /\ steps' = Append(steps, s)
    /\ failed' = failed

\* mutant: generate() without the assert on `files`
Generate_NoAssert ==
    /\ pc = "idle"
    /\ run < MaxRuns
    /\ run' = run + 1
    /\ protoc' = NoProtoc
    /\ invoked' = FALSE
    /\ genOut' = {}
    /\ genSnap' = NoFiles
    /\ modules' = <<>>
    /\ steps' = <<>>
    /\ pc' = "prepare_out_dir"
    /\ failed' = ""
    /\ UNCHANGED <<cfgVars, fs, protos, lastSearch, lastOutDir, prev>>

\* generate() is entered: the assert on `files`
Generate ==
    /\ pc = "idle"
    /\ run < MaxRuns
    /\ run' = run + 1
    /\ protoc' = NoProtoc
    /\ invoked' = FALSE
    /\ genOut' = {}
    /\ genSnap' = NoFiles
    /\ modules' = <<>>
    /\ steps' = <<>>
    /\ IF files = <<>>
       THEN Abort("assert")
       ELSE pc' = "prepare_out_dir" /\ failed' = ""
    /\ UNCHANGED <<cfgVars, fs, protos, lastSearch, lastOutDir, prev>>

\* mutant: create_dir_all without the remove_dir_all before it
PrepareOutDir_NoRemove ==
    /\ pc = "prepare_out_dir"
    /\ fs' = [fs EXCEPT ![out_dir].exists = TRUE]
    /\ pc' = "generate_files"
    /\ Done("prepare_out_dir")
    /\ UNCHANGED <<cfgVars, protos, run, protoc, invoked, genOut, genSnap, modules,
                   lastSearch, lastOutDir, prev>>

\* mutant: generate() goes from prepare_out_dir to generate_mod_file
PrepareOutDir_SkipGenerate ==
    /\ pc = "prepare_out_dir"
    /\ fs' = [fs EXCEPT ![out_dir] = EmptyDir]
    /\ pc' = "generate_mod_file"
    /\ Done("prepare_out_dir")
    /\ UNCHANGED <<cfgVars, protos, run, protoc, invoked, genOut, genSnap, modules,
                   lastSearch, lastOutDir, prev>>

\* Builder::prepare_out_dir: remove_dir_all if the path exists, then create_dir_all
PrepareOutDir ==
    /\ pc = "prepare_out_dir"
    /\ \/ /\ fs' = [fs EXCEPT ![out_dir] = EmptyDir]
          /\ pc' = "generate_files"
          /\ Done("prepare_out_dir")
       \/ \* remove_dir_all fails, having removed some of the entries
          /\ fs[out_dir].exists
          /\ \E keep \in SUBSET (DOMAIN fs[out_dir].files) :
                fs' = [fs EXCEPT ![out_dir].files = Restrict(@, keep)]
          /\ Abort("prepare_out_dir")
          /\ UNCHANGED steps
       \/ \* create_dir_all fails
          /\ fs' = [fs EXCEPT ![out_dir] = AbsentDir]
          /\ Abort("prepare_out_dir")
          /\ UNCHANGED steps
    /\ UNCHANGED <<cfgVars, protos, run, protoc, invoked, genOut, genSnap, modules,
                   lastSearch, lastOutDir, prev>>

\* mutant: any major version from 3 on passes
Is3_AtLeast3(v) == v.major >= 3

\* Version::is_3
Is3(v) == v.major = 3

\* check_and_get_protoc_bin_path: the two unwraps and the assert
ProtocAccepted(o) == o.st = "ok" /\ Is3(o)

\* generate_files evaluates its arguments first: the protoc binary is resolved
\* and checked before compile_grpc_protos is entered
CheckProtoc ==
    /\ pc = "generate_files"
    /\ \E o \in ProtocOutcomes :
          /\ protoc' = o
          /\ IF ProtocAccepted(o)
             THEN pc' = "compile_grpc_protos" /\ Done("check_protoc")
             ELSE Abort("check_protoc") /\ UNCHANGED steps
    /\ UNCHANGED <<cfgVars, fs, protos, run, invoked, genOut, genSnap, modules,
                   lastSearch, lastOutDir, prev>>

\* protoc_grpcio::compile_grpc_protos: the external generator writes a set of
\* files into out_dir and returns Ok, or writes some and returns Err (expect panics)
CompileGrpcProtos ==
    /\ pc = "compile_grpc_protos"
    /\ invoked' = TRUE
    /\ \E outs \in SUBSET GenNames :
          LET written == [n \in DOMAIN fs[out_dir].files \cup outs |->
                            IF n \in outs THEN GenFile(run) ELSE fs[out_dir].files[n]]
          IN  /\ genOut' = outs
              /\ fs' = [fs EXCEPT ![out_dir].files = written]
              /\ \/ /\ pc' = "generate_mod_file"
                    /\ genSnap' = written
                    /\ Done("compile_grpc_protos")
                 \/ /\ Abort("compile_grpc_protos")
                    /\ UNCHANGED <<genSnap, steps>>
    /\ UNCHANGED <<cfgVars, protos, run, protoc, modules, lastSearch, lastOutDir, prev>>

\* the directory part of a path, up to its last slash
ParentDir(path) == SubSeq(path, 1, LastIndexOf(path, 47) - 1)

\* mutant: the index is created under the name of a generated file
ModPath_FirstOutput == out_dir \o S_slash \o N_a_rs

\* format!("{}/mod.rs", self.out_dir)
ModPath == out_dir \o S_slash \o N_mod_rs

\* File::create: a new empty file, or the existing file truncated
Created(f, n) ==
    WithFile(f, n, [born |-> IF n \in DOMAIN f THEN f[n].born ELSE run,
                    src |-> "index", data |-> <<>>])

\* generate_mod_file, line 85: File::create(mod.rs)
CreateModFile ==
    /\ pc = "generate_mod_file"
    /\ \/ /\ fs' = [fs EXCEPT ![ParentDir(ModPath)].files = Created(@, FileName(ModPath))]
          /\ pc' = "list_rs_files"
          /\ Done("create_mod_file")
       \/ /\ Abort("create_mod_file")
          /\ UNCHANGED <<fs, steps>>
    /\ UNCHANGED <<cfgVars, protos, run, protoc, invoked, genOut, genSnap, modules,
                   lastSearch, lastOutDir, prev>>

\* mutant: every entry is listed, whatever its extension
ListRsFiles_AllEntries(dir, order) ==
    [i \in 1 .. Len(order) |-> JoinPath(dir, order[i])]

\* Builder::list_rs_files: the paths of the entries whose extension is "rs", in
\* the order read_dir gave the entries
RECURSIVE ListRsFiles(_, _)
ListRsFiles(dir, order) ==
    IF order = <<>> THEN <<>>
    ELSE LET path == JoinPath(dir, Head(order))
         IN  (IF Extension(path) = Some(S_rs) THEN <<path>> ELSE <<>>)
             \o ListRsFiles(dir, Tail(order))

\* the filter_map closure of generate_mod_file: the file stem, None for "mod"
ModuleName(path) ==
    LET name == FileStem(path)
    IN  IF name = S_mod THEN None ELSE Some(name)

RECURSIVE ModuleNames(_)
ModuleNames(paths) ==
    IF paths = <<>> THEN <<>>
    ELSE LET r == ModuleName(Head(paths))
         IN  (IF r.some THEN <<r.val>> ELSE <<>>) \o ModuleNames(Tail(paths))

\* x inserted into the sorted sequence s, after the elements not greater than it
RECURSIVE Insert(_, _)
Insert(s, x) ==
    IF s = <<>> THEN <<x>>
    ELSE IF LexLess(x, Head(s)) THEN <<x>> \o s
    ELSE <<Head(s)>> \o Insert(Tail(s), x)

RECURSIVE SortFrom(_, _)
SortFrom(acc, s) ==
    IF s = <<>> THEN acc ELSE SortFrom(Insert(acc, Head(s)), Tail(s))

\* mutant: the module list is left in the order of the listing
Sort_Unsorted(s) == s

\* modules.sort(): a stable sort by String's ordering
Sort(s) == SortFrom(<<>>, s)

\* generate_mod_file, lines 87-99: list, filter, collect, sort
CollectModules ==
    /\ pc = "list_rs_files"
    /\ \/ /\ \E order \in Orders(DOMAIN fs[out_dir].files) :
                modules' = Sort(ModuleNames(ListRsFiles(out_dir, order)))
          /\ pc' = "write_modules"
          /\ Done("list_rs_files")
       \/ \* read_dir or an entry fails
          /\ Abort("list_rs_files")
          /\ UNCHANGED <<modules, steps>>
    /\ UNCHANGED <<cfgVars, fs, protos, run, protoc, invoked, genOut, genSnap,
                   lastSearch, lastOutDir, prev>>

\* the write calls of writeln!(f, "pub mod {};", module), one per piece
RECURSIVE Pieces(_)
Pieces(ms) ==
    IF ms = <<>> THEN <<>>
    ELSE <<S_pub_mod, Head(ms), S_semi_nl>> \o Pieces(Tail(ms))

RECURSIVE Concat(_)
Concat(ps) == IF ps = <<>> THEN <<>> ELSE Head(ps) \o Concat(Tail(ps))

\* generate_mod_file, lines 101-103: the lines are written to the open file,
\* unbuffered, each piece with write_all; a write that fails leaves the bytes
\* written before it, which may end inside a piece
WriteModules ==
    /\ pc = "write_modules"
    /\ LET bytes == Concat(Pieces(modules))
           path == ModPath
       IN  \/ /\ fs' = [fs EXCEPT ![ParentDir(path)].files[FileName(path)].data =
                                      bytes]
              /\ pc' = "done"
              /\ Done("write_modules")
           \/ /\ \E k \in 0 .. (Len(bytes) - 1) :
                    fs' = [fs EXCEPT ![ParentDir(path)].files[FileName(path)].data =
                                        SubSeq(bytes, 1, k)]
              /\ Abort("write_modules")
              /\ UNCHANGED steps
    /\ UNCHANGED <<cfgVars, protos, run, protoc, invoked, genOut, genSnap, modules,
                   lastSearch, lastOutDir, prev>>

\* generate() returns to its caller
Return ==
    /\ pc = "done"
    /\ pc' = "idle"
    /\ prev' = [valid |-> TRUE, out_dir |-> out_dir, files |-> files,
                genOut |-> genOut, index |-> fs[out_dir].files[N_mod_rs].data]
    /\ UNCHANGED <<cfgVars, fs, protos, callVars, lastSearch, lastOutDir>>

Next ==
    \/ \E path \in OutDirArgs : OutDir(path)
    \/ \E proto_dir \in ProtoDirArgs : SearchDirForProtos(proto_dir)
    \/ Generate
    \/ PrepareOutDir
    \/ CheckProtoc
    \/ CompileGrpcProtos
    \/ CreateModFile
    \/ CollectModules
    \/ WriteModules
    \/ Return

Spec == Init /\ [][Next]_vars

(***************************************************************************)
(* search_dir_for_protos on every directory of up to MaxEntries entries.   *)
(***************************************************************************)
InitSearch ==
    /\ InitBuilder
    /\ InitCall
    /\ fs = [d \in OutDirArgs |-> AbsentDir]
    /\ \E es \in SUBSET EntryPool, other \in BOOLEAN :
          /\ Cardinality(es) <= MaxEntries
          /\ protos = [d \in ProtoDirArgs |->
                         IF d = SearchedDir
                         THEN [exists |-> TRUE, entries |-> es]
                         ELSE [exists |-> other,
                               entries |-> IF other THEN {Entry(N_b_proto, "file")}
                                           ELSE {}]]

NextSearch ==
    \/ \E path \in OutDirArgs : OutDir(path)
    \/ \E proto_dir \in ProtoDirArgs : SearchDirForProtos(proto_dir)

SpecSearch == InitSearch /\ [][NextSearch]_vars

(***************************************************************************)
(* Properties.                                                             *)
(***************************************************************************)
\* the files of the output directory of the configuration
OutFiles == fs[out_dir].files

EndsWith(s, suffix) ==
    /\ Len(s) >= Len(suffix)
    /\ SubSeq(s, Len(s) - Len(suffix) + 1, Len(s)) = suffix

\* the names a non-empty stem followed by ".rs", without the ".rs", except "mod"
RsStems(f) ==
    {SubSeq(n, 1, Len(n) - 3) :
        n \in {m \in DOMAIN f : Len(m) > 3 /\ EndsWith(m, S_dot \o S_rs)}} \ {S_mod}

\* the position of the k-th newline of data (0 for k = 0)
NewlineAt(data, k) ==
    IF k = 0 THEN 0
    ELSE CHOOSE i \in DOMAIN data :
            /\ data[i] = 10
            /\ Cardinality({j \in 1 .. i : data[j] = 10}) = k

\* the k-th line of data, without its newline
LineOf(data, k) ==
    SubSeq(data, NewlineAt(data, k - 1) + 1, NewlineAt(data, k) - 1)

\* the name declared by the line `pub mod <name>;`
DeclOf(line) == SubSeq(line, Len(S_pub_mod) + 1, Len(line) - 1)

IsDecl(line) ==
    /\ Len(line) > Len(S_pub_mod) + 1
    /\ SubSeq(line, 1, Len(S_pub_mod)) = S_pub_mod
    /\ line[Len(line)] = 59

\* mod.rs of f is made of lines `pub mod <name>;`, one for each .rs file of f
\* other than mod.rs, in ascending byte order of the names
IndexDeclares(f) ==
    /\ N_mod_rs \in DOMAIN f
    /\ LET data == f[N_mod_rs].data
           n == Cardinality({i \in DOMAIN data : data[i] = 10})
       IN  /\ data # <<>> => data[Len(data)] = 10
           /\ \A k \in 1 .. n : IsDecl(LineOf(data, k))
           /\ {DeclOf(LineOf(data, k)) : k \in 1 .. n} = RsStems(f)
           /\ n = Cardinality(RsStems(f))
           /\ \A k \in 1 .. n : DeclOf(LineOf(data, k)) # S_mod
           /\ \A k \in 1 .. n : \A l \in 1 .. n :
                 k < l => LexLess(DeclOf(LineOf(data, k)), DeclOf(LineOf(data, l)))

\* the steps of generate() in the order of the source
Pipeline ==
    <<"prepare_out_dir", "check_protoc", "compile_grpc_protos", "create_mod_file",
      "list_rs_files", "write_modules">>

\* the order with the index file created only after the scan
ScanFirstOrder ==
    <<"prepare_out_dir", "check_protoc", "compile_grpc_protos", "list_rs_files",
      "create_mod_file", "write_modules">>

IsPrefix(s, t) == Len(s) <= Len(t) /\ s = SubSeq(t, 1, Len(s))

\* the process is in a generate() call, or ended in one
InCall == pc # "idle" /\ failed # "search_dir_for_protos"

\* the output directory held the outputs of the last successful call when this
\* call started
RerunInPlace == prev.valid /\ prev.out_dir = out_dir

\* C1: after a generate() that completed, the output directory holds exactly the
\* files the generator wrote in this call and mod.rs, each of them created in
\* this call: nothing that was there before the call is left.
C1_FreshOutputsOnly ==
    pc = "done" =>
        /\ fs[out_dir].exists
        /\ DOMAIN OutFiles = genOut \cup {N_mod_rs}
        /\ \A n \in DOMAIN OutFiles : OutFiles[n].born = run

C1_Witness ==
    /\ pc = "done"
    /\ RerunInPlace
    /\ N_b_rs \in prev.genOut
    /\ N_b_rs \notin genOut
    /\ N_a_rs \in genOut

\* C2: after a generate() that completed, mod.rs holds exactly one line
\* `pub mod <name>;` for each .rs file of the output directory other than mod.rs,
\* in ascending byte order of name, and no line declares `mod`.
C2_IndexSortedExact == pc = "done" => IndexDeclares(OutFiles)

C2_Witness ==
    /\ pc = "done"
    /\ genOut = {N_a_rs, N_a_grpc_rs, N_b_rs, N_n_txt}
    /\ OutFiles[N_mod_rs].data =
          S_pub_mod \o <<97>> \o S_semi_nl
          \o S_pub_mod \o <<97, 95, 103, 114, 112, 99>> \o S_semi_nl
          \o S_pub_mod \o <<98>> \o S_semi_nl

\* the directory the last search_dir_for_protos call listed
Searched == protos[lastSearch].entries

AfterSearch == pc = "idle" /\ lastSearch # <<>>

\* C3 as claimed: after search_dir_for_protos(D) the file list is exactly the
\* paths D/<name> of the regular files of D whose name ends in .proto.
C3_RegularFilesEndingInProto ==
    AfterSearch =>
        /\ Range(files) =
              {JoinPath(lastSearch, e.name) :
                  e \in {x \in Searched :
                            x.kind = "file" /\ EndsWith(x.name, S_dot \o S_proto)}}
        /\ Len(files) = Cardinality(Range(files))

\* C3, amended: after search_dir_for_protos(D) the file list is exactly the paths
\* D/<name>, each once, of the entries of D that are not directories and whose
\* name is a non-empty stem followed by .proto.
C3_NonDirectoriesWithProtoExtension ==
    AfterSearch =>
        /\ Range(files) =
              {JoinPath(lastSearch, e.name) :
                  e \in {x \in Searched :
                            /\ x.kind # "dir"
                            /\ Len(x.name) > Len(S_dot \o S_proto)
                            /\ EndsWith(x.name, S_dot \o S_proto)}}
        /\ Len(files) = Cardinality(Range(files))

C3_Witness ==
    /\ AfterSearch
    /\ lastSearch = SearchedDir
    /\ Searched = {Entry(N_a_proto, "file"), Entry(N_dot_proto, "file"),
                   Entry(N_sub_proto, "dir"), Entry(N_readme_md, "file")}
    /\ files = <<JoinPath(SearchedDir, N_a_proto)>>

\* C4: generate() on an empty file list aborts, and the step that enters it
\* leaves the filesystem as it was, resolves no compiler and invokes no generator.
C4_EmptyListAbortsUntouched ==
    [][(pc = "idle" /\ files = <<>> /\ run' # run) =>
          /\ pc' = "aborted"
          /\ fs' = fs
          /\ protoc' = NoProtoc
          /\ invoked' = FALSE
          /\ steps' = <<>>]_vars

C4_Witness ==
    /\ pc = "aborted"
    /\ failed = "assert"
    /\ files = <<>>
    /\ fs[out_dir] = StaleDir

\* C5: when the compiler is not found, its version cannot be read, or its major
\* version is not 3, the call has aborted without invoking the generator and
\* without an index file in the output directory.
C5_BadProtocNoGeneration ==
    (protoc.st \in {"not_found", "no_version"} \/ (protoc.st = "ok" /\ protoc.major # 3)) =>
        /\ pc = "aborted"
        /\ ~invoked
        /\ genOut = {}
        /\ N_mod_rs \notin DOMAIN OutFiles

C5_Witness ==
    /\ pc = "aborted"
    /\ protoc = [st |-> "ok", major |-> 4]
    /\ steps = <<"prepare_out_dir">>

\* outputs of this call's generator are in the output directory
OutputsPresent ==
    \E n \in DOMAIN OutFiles : OutFiles[n].born = run /\ OutFiles[n].src = "generator"

\* C6 as claimed: a generate() that aborted leaves no half-generated tree: no
\* generator outputs without a complete index file.
C6_NoHalfGeneratedTree ==
    (pc = "aborted" /\ InCall) => ~(OutputsPresent /\ ~IndexDeclares(OutFiles))

\* C6, amended: a failure at any step aborts the process at that step: the steps
\* before it completed in order, none after it ran, and nothing is cleaned up:
\* once the generator returned, everything it wrote stays in the output directory.
C6_AbortStopsPipeline ==
    failed # "" =>
        /\ pc = "aborted"
        /\ failed \in Range(Pipeline) =>
              /\ IsPrefix(steps, Pipeline)
              /\ Len(steps) < Len(Pipeline)
              /\ failed = Pipeline[Len(steps) + 1]
        /\ failed \in {"create_mod_file", "list_rs_files", "write_modules"} =>
              \A n \in DOMAIN genSnap \ {N_mod_rs} :
                  n \in DOMAIN OutFiles /\ OutFiles[n] = genSnap[n]

C6_Witness ==
    /\ pc = "aborted"
    /\ failed = "write_modules"
    /\ genOut = {N_a_rs, N_b_rs}
    /\ OutputsPresent
    /\ OutFiles[N_mod_rs].data = S_pub_mod \o <<97>>

\* C7: a generate() that completes with the configuration and the generator
\* outputs of the successful call before it leaves the same bytes in mod.rs.
C7_RerunSameIndex ==
    (pc = "done" /\ RerunInPlace /\ prev.files = files /\ prev.genOut = genOut) =>
        OutFiles[N_mod_rs].data = prev.index

C7_Witness ==
    /\ pc = "done"
    /\ RerunInPlace
    /\ prev.files = files
    /\ prev.genOut = genOut
    /\ genOut = {N_a_rs, N_a_grpc_rs, N_b_rs}
    /\ prev.index # <<>>

\* C8: a step that is an out_dir(path) call leaves out_dir = path and changes
\* nothing else: not the file list, not include_dir, not the filesystem, and
\* the process goes on; out_dir is always the argument of the last call.
C8_OutDirSetsOneField ==
    [][/\ (lastOutDir' # lastOutDir \/ out_dir' # out_dir) =>
             /\ out_dir' = lastOutDir'
             /\ files' = files
             /\ include_dir' = include_dir
             /\ fs' = fs
             /\ protos' = protos
             /\ pc' = "idle"
       /\ lastOutDir' # <<>> => out_dir' = lastOutDir']_vars

C8_Witness ==
    /\ pc = "idle"
    /\ lastOutDir = <<103>>
    /\ out_dir = <<103>>
    /\ files # <<>>
    /\ prev.valid
    /\ prev.out_dir # out_dir

\* C9 as claimed: the completed steps of a call are always a prefix of: prepare,
\* resolve compiler, generate, scan, create index, write index.
C9_ScanBeforeIndexCreated == IsPrefix(steps, ScanFirstOrder)

\* C9, amended: the completed steps of a call are always a prefix of: prepare,
\* resolve compiler, generate, create mod.rs (empty), scan, write the lines; a
\* call is done only with all six; the generator runs only with an accepted
\* compiler in a prepared directory; and mod.rs has no byte before the scan.
C9_PipelineOrder ==
    /\ IsPrefix(steps, Pipeline)
    /\ pc = "done" => steps = Pipeline
    /\ (InCall /\ invoked) =>
          (protoc = [st |-> "ok", major |-> 3] /\ fs[out_dir].exists)
    /\ (InCall /\ "create_mod_file" \in Range(steps)) =>
          /\ "compile_grpc_protos" \in Range(steps)
          /\ N_mod_rs \in DOMAIN OutFiles
          /\ "list_rs_files" \notin Range(steps) => OutFiles[N_mod_rs].data = <<>>

C9_Witness ==
    /\ pc = "done"
    /\ steps = Pipeline
    /\ OutFiles[N_mod_rs].data # <<>>

\* C10: no step of generate() changes the configuration; from the generator's
\* return on, no step changes a file other than mod.rs of the output directory;
\* and a mod.rs the generator wrote is the index when the call is done.
C10_GenerateFrame ==
    [][/\ (pc # "idle" \/ pc' # "idle") =>
             (out_dir' = out_dir /\ files' = files /\ include_dir' = include_dir)
       /\ pc \in {"generate_mod_file", "list_rs_files", "write_modules"} =>
             /\ \A d \in DOMAIN fs \ {out_dir} : fs'[d] = fs[d]
             /\ \A n \in DOMAIN genSnap \ {N_mod_rs} :
                   n \in DOMAIN fs'[out_dir].files /\ fs'[out_dir].files[n] = genSnap[n]
       /\ (pc' = "done" /\ N_mod_rs \in genOut) =>
             /\ fs'[out_dir].files[N_mod_rs].src = "index"
             /\ IndexDeclares(fs'[out_dir].files)]_vars

C10_Witness ==
    /\ pc = "done"
    /\ genOut = {N_mod_rs, N_a_rs, N_n_txt}
    /\ OutFiles[N_mod_rs].src = "index"
    /\ OutFiles[N_a_rs] = GenFile(run)

====
